---- MODULE Spec2Model ----
(***************************************************************************)
(* Model of RotationSensor (src/RotationSensor.h, src/RotationSensor.cpp): *)
(* an interrupt-driven pulse counter.  Mainline code calls the public      *)
(* methods of two sensor objects; the external-interrupt handlers          *)
(* RotationSensor_ISR_0 / RotationSensor_ISR_1 preempt the mainline at any *)
(* step at which the global interrupt flag is set and their line is        *)
(* attached.  A handler runs to completion (the mainline never preempts    *)
(* it).                                                                    *)
(*                                                                         *)
(* uint32_t values are pairs <<hi, lo>> of 16-bit limbs, so that the       *)
(* arithmetic keeps its width of 32 bits within TLC's integers.            *)
(*                                                                         *)
(* int is 16 bits wide and pins 2 and 3 carry IRQ 0 and IRQ 1, as on the   *)
(* board the source's comments name.  A 32-bit field is read or written in *)
(* one step.  A store through pSensors[irq] with irq outside the array is  *)
(* recorded in strayWrites; what it overwrites lies outside this state.    *)
(***************************************************************************)
EXTENDS Integers, Sequences, FiniteSets, TLC

VARIABLES
    _state,             \* per object: PulsesPerRev:8, Pin:5, IRQ:2, Enabled:1
    _count,             \* per object: volatile uint32_t
    _lastPulseTime,     \* per object: volatile uint32_t
    _prevPulseTime,     \* per object: volatile uint32_t
    pSensors,           \* static volatile RotationSensor* pSensors[2]
    strayWrites,        \* indices outside pSensors[2] that Enable() has written
    attached,           \* per interrupt line: the handler attachInterrupt bound
    interruptsOn,       \* the global interrupt-enable flag
    clock,              \* the microsecond clock read by micros()
    pc,                 \* position of the mainline
    call,               \* the public method the mainline is in (or was last in),
                        \*   its object and argument, and (history) the global
                        \*   interrupt flag at the moment it was called
    local,              \* Read()/ReadCount() locals: count, endTime, prevTime
    result,             \* what the last call returned
    npulses,            \* history: pulses handled per object since its last reset
    seen,               \* history: measurement states that existed during a read
    pulsesFired,        \* history: number of pulses so far (bounded)
    accumulated,        \* history: two or more pulses were counted when
                        \*          Enable(false) last returned
    fresh               \* history: no pulse handled since the object's last
                        \*          disabled-to-enabled Enable(true) began

vars == <<_state, _count, _lastPulseTime, _prevPulseTime, pSensors, strayWrites,
          attached, interruptsOn, clock, pc, call, local, result, npulses, seen,
          pulsesFired, accumulated, fresh>>

(***************************************************************************)
(* Bounds of the model.                                                    *)
(***************************************************************************)
MaxPulses == 3

(***************************************************************************)
(* 32-bit unsigned arithmetic on limb pairs.                               *)
(***************************************************************************)
W16 == 65536

U32(n) == <<(n \div W16) % W16, n % W16>>

Zero32 == <<0, 0>>

Add32(a, b) ==
    LET lo == a[2] + b[2]
        hi == a[1] + b[1] + (lo \div W16)
    IN  <<hi % W16, lo % W16>>

Sub32(a, b) ==
    LET lo == a[2] - b[2]
        hi == a[1] - b[1] - (IF lo < 0 THEN 1 ELSE 0)
    IN  <<hi % W16, lo % W16>>

Mul32(a, c) ==
    LET lo == a[2] * c
        hi == a[1] * c + (lo \div W16)
    IN  <<hi % W16, lo % W16>>

(* A history counter that does not wrap: hi is unbounded. *)
IncNat(a) ==
    LET lo == a[2] + 1
    IN  <<a[1] + (lo \div W16), lo % W16>>

(***************************************************************************)
(* Platform constants and the objects.                                     *)
(***************************************************************************)
NULL == "NULL"
NoHandler == "none"
NOT_AN_INTERRUPT == -1
NO_READING == -1
INT_MAX == 32767

Sensors == {"A", "B"}
Lines == {0, 1}

Max(a, b) == IF a > b THEN a ELSE b

(* digitalPinToInterrupt of the board the source names: IRQ 0 is pin 2 and *)
(* IRQ 1 is pin 3; every other pin has no interrupt.                       *)
digitalPinToInterrupt(p) ==
    IF p = 2 THEN 0 ELSE IF p = 3 THEN 1 ELSE NOT_AN_INTERRUPT

(* The constructor: each assignment truncates to the width of its bit-field. *)
RotationSensor(pin, pulsesPerRev) ==
    [ Pin          |-> pin % 32,
      PulsesPerRev |-> Max(1, pulsesPerRev) % 256,
      IRQ          |-> digitalPinToInterrupt(pin % 32) % 4,
      Enabled      |-> FALSE ]

Resolution(s) == _state[s].PulsesPerRev

ID(s) == _state[s].Pin

(* _state.IRQ is an unsigned 2-bit field: it is promoted to int, never negative. *)
HasInterrupt(s) == _state[s].IRQ # NOT_AN_INTERRUPT

(* Mutation: Enabled() that forgets the enabled flag. *)
Enabled_ignoresFlag(s) == HasInterrupt(s)

Enabled(s) == HasInterrupt(s) /\ _state[s].Enabled


(***************************************************************************)
(* CountData and its two computations.                                     *)
(* A float is [neg, num, den]: the quotient (-)num/den of two values that  *)
(* are exact in float, num a limb pair; den = 0 is the result of a         *)
(* floating division by zero.  The rounding of the quotient itself is not  *)
(* represented.                                                            *)
(***************************************************************************)
CountData_struct ==
    [ SensorID |-> 0, Count |-> Zero32, CountsPerRev |-> 0,
      LastCountTime |-> Zero32, LastInterval |-> Zero32 ]

Float(i) ==
    [ neg |-> i < 0, num |-> U32(IF i < 0 THEN -i ELSE i), den |-> 1 ]

(* The conversion of a uint32_t to float: 24 significant bits, round to    *)
(* nearest, ties to even.  Values below 2^24 (hi < 256) are exact; above,  *)
(* hi has 8 + drop bits and the low drop bits of lo are rounded away.  The *)
(* result can be 2^32, the pair <<65536, 0>>.                              *)
ToFloat(a) ==
    IF a[1] < 256 THEN a
    ELSE LET drop == CHOOSE k \in 1..8 : a[1] \div 2^(7 + k) = 1
             unit == 2^drop
             rest == a[2] % unit
             kept == a[2] - rest
             up   == \/ 2 * rest > unit
                     \/ 2 * rest = unit /\ (kept \div unit) % 2 = 1
             lo   == IF up THEN kept + unit ELSE kept
         IN  <<a[1] + (lo \div W16), lo % W16>>

(* 60000000.0 / d truncated toward zero, for a divisor d # 0. *)
Div60M(d) ==
    IF d[1] >= 916 THEN 0 ELSE 60000000 \div (d[1] * W16 + d[2])

(* An int the build may produce when a floating value outside the range of *)
(* int (or an infinity) is converted to int.                               *)
IntOutcomes == {-INT_MAX - 1, -1, 0, INT_MAX}

(* int RPM(): the values the call can return. *)
RPM(data) ==
    IF data.LastInterval = Zero32
    THEN {0}
    ELSE LET d == Mul32(data.LastInterval, data.CountsPerRev)
         IN  IF d = Zero32 THEN IntOutcomes
             ELSE IF Div60M(ToFloat(d)) > INT_MAX THEN IntOutcomes
             ELSE {Div60M(ToFloat(d))}

(* float Revs(): ((float)Count) / CountsPerRev. *)
Revs(data) ==
    [ neg |-> FALSE, num |-> ToFloat(data.Count), den |-> data.CountsPerRev ]

(***************************************************************************)
(* The measurement state of an object, and the snapshot Read() builds.     *)
(***************************************************************************)
Meas(s) == <<_count[s], _lastPulseTime[s], _prevPulseTime[s]>>

(* Mutation: Read() that subtracts without testing prevTime for zero. *)
ReadData_noSentinel(s, count, endTime, prevTime) ==
    [ SensorID      |-> _state[s].Pin,
      CountsPerRev  |-> _state[s].PulsesPerRev,
      Count         |-> count,
      LastCountTime |-> endTime,
      LastInterval  |-> Sub32(endTime, prevTime) ]

(* Mutation: Read() that reports no interval when the last timestamp is    *)
(* numerically below the previous one.                                     *)
ReadData_noWrap(s, count, endTime, prevTime) ==
    [ SensorID      |-> _state[s].Pin,
      CountsPerRev  |-> _state[s].PulsesPerRev,
      Count         |-> count,
      LastCountTime |-> endTime,
      LastInterval  |-> IF prevTime = Zero32
                           \/ endTime[1] < prevTime[1]
                           \/ (endTime[1] = prevTime[1] /\ endTime[2] < prevTime[2])
                        THEN Zero32
                        ELSE Sub32(endTime, prevTime) ]

ReadData(s, count, endTime, prevTime) ==
    [ SensorID      |-> _state[s].Pin,
      CountsPerRev  |-> _state[s].PulsesPerRev,
      Count         |-> count,
      LastCountTime |-> endTime,
      LastInterval  |-> IF prevTime = Zero32 THEN Zero32
                        ELSE Sub32(endTime, prevTime) ]

NoLocal == [ count |-> Zero32, endTime |-> Zero32, prevTime |-> Zero32 ]

NoResult ==
    [ kind |-> "void", data |-> CountData_struct, u |-> Zero32, f |-> Float(0) ]

DataResult(d) == [ NoResult EXCEPT !.kind = "data", !.data = d ]
CountResult(c) == [ NoResult EXCEPT !.kind = "count", !.u = c ]
FloatResult(k, d, x) == [ NoResult EXCEPT !.kind = k, !.data = d, !.f = x ]

(***************************************************************************)
(* Inputs.                                                                 *)
(***************************************************************************)
(* The (pin, pulsesPerRev) arguments the two objects are constructed with:   *)
(* two lines; one line shared by both objects, with a resolution wider than *)
(* its field; a pin without an interrupt, with a non-positive resolution.   *)
Constructions ==
    { [A |-> <<2, 20>>, B |-> <<3, -1>>],
      [A |-> <<2, 20>>, B |-> <<2, 256>>],
      [A |-> <<4, 0>>,  B |-> <<3, 1>>] }

(* What the three uninitialised counters of an object may hold after        *)
(* construction: zero in static storage, anything in automatic storage.    *)
Indeterminate == {Zero32, <<43981, 4660>>}

(* Microseconds between two consecutive readings of micros(). *)
Elapsed == {U32(25000), U32(24000)}

ClockAtStart == <<65535, 16536>>    \* 2^32 - 49000

(* Mutation: a critical section that leaves the interrupt flag set. *)
noInterrupts_dropped == TRUE

(* The value noInterrupts() / interrupts() give the global interrupt flag. *)
noInterrupts == FALSE
interrupts == TRUE

Init ==
    /\ \E c \in Constructions :
          _state = [ s \in Sensors |-> RotationSensor(c[s][1], c[s][2]) ]
    /\ \E g \in Indeterminate :
          /\ _count = [ s \in Sensors |-> g ]
          /\ _lastPulseTime = [ s \in Sensors |-> g ]
          /\ _prevPulseTime = [ s \in Sensors |-> g ]
    /\ pSensors = [ i \in Lines |-> NULL ]
    /\ strayWrites = {}
    /\ attached = [ i \in Lines |-> NoHandler ]
    /\ interruptsOn = TRUE
    /\ clock = ClockAtStart
    /\ pc = "idle"
    /\ call = [ op |-> "none", self |-> "A", enabled |-> FALSE, flagAtCall |-> TRUE ]
    /\ local = NoLocal
    /\ result = NoResult
    /\ npulses = [ s \in Sensors |-> Zero32 ]
    /\ seen = {}
    /\ pulsesFired = 0
    /\ accumulated = [ s \in Sensors |-> FALSE ]
    /\ fresh = [ s \in Sensors |-> FALSE ]


(***************************************************************************)
(* The pulse interrupt.                                                    *)
(***************************************************************************)
InRead == pc \in {"rd_noint", "rd_count", "rd_end", "rd_prev", "rd_int", "rd_data"}

(* Mutation: Count_ISR() that does not move the last timestamp to the      *)
(* previous one.                                                           *)
Count_ISR_noShift(s, now) ==
    /\ UNCHANGED _prevPulseTime
    /\ _lastPulseTime' = [_lastPulseTime EXCEPT ![s] = now]
    /\ _count' = [_count EXCEPT ![s] = Add32(_count[s], U32(1))]
    /\ npulses' = [npulses EXCEPT ![s] = IncNat(npulses[s])]
    /\ fresh' = [fresh EXCEPT ![s] = FALSE]
    /\ seen' = IF InRead /\ call.self = s
               THEN seen \cup {<<Add32(_count[s], U32(1)), now, _prevPulseTime[s]>>}
               ELSE seen

(* Count_ISR() on object s, micros() returning now. *)
Count_ISR(s, now) ==
    /\ _prevPulseTime' = [_prevPulseTime EXCEPT ![s] = _lastPulseTime[s]]
    /\ _lastPulseTime' = [_lastPulseTime EXCEPT ![s] = now]
    /\ _count' = [_count EXCEPT ![s] = Add32(_count[s], U32(1))]
    /\ npulses' = [npulses EXCEPT ![s] = IncNat(npulses[s])]
    /\ fresh' = [fresh EXCEPT ![s] = FALSE]
    /\ seen' = IF InRead /\ call.self = s
               THEN seen \cup {<<Add32(_count[s], U32(1)), now, _lastPulseTime[s]>>}
               ELSE seen

(* A rising edge on a line whose handler is attached, taken when the global *)
(* interrupt flag allows it; the handler dispatches through pSensors[i].    *)
Dispatch(i) ==
    /\ interruptsOn
    /\ pulsesFired < MaxPulses
    /\ \E d \in Elapsed :
          LET now == Add32(clock, d)
              pSensor == pSensors[i]
          IN  /\ clock' = now
              /\ IF pSensor # NULL
                 THEN Count_ISR(pSensor, now)
                 ELSE UNCHANGED <<_count, _lastPulseTime, _prevPulseTime, npulses,
                                  fresh, seen>>
    /\ pulsesFired' = pulsesFired + 1
    /\ UNCHANGED <<_state, pSensors, strayWrites, attached, interruptsOn, pc, call,
                   local, result, accumulated>>

RotationSensor_ISR_0 ==
    /\ attached[0] = "RotationSensor_ISR_0"
    /\ Dispatch(0)

RotationSensor_ISR_1 ==
    /\ attached[1] = "RotationSensor_ISR_1"
    /\ Dispatch(1)

(***************************************************************************)
(* Reset(): called by the mainline, and by Enable(true).                   *)
(***************************************************************************)
Return(r) ==
    /\ pc' = "idle"
    /\ result' = r
    /\ local' = NoLocal
    /\ seen' = {}

CallReset(s) ==
    /\ pc = "idle"
    /\ call' = [op |-> "Reset", self |-> s, enabled |-> FALSE,
                flagAtCall |-> interruptsOn]
    /\ pc' = "rs_noint"
    /\ result' = NoResult
    /\ UNCHANGED <<_state, _count, _lastPulseTime, _prevPulseTime, pSensors,
                   strayWrites, attached, interruptsOn, clock, local, npulses, seen,
                   pulsesFired, accumulated, fresh>>

Reset_noInterrupts ==
    /\ pc = "rs_noint"
    /\ interruptsOn' = noInterrupts
    /\ pc' = "rs_count"
    /\ UNCHANGED <<_state, _count, _lastPulseTime, _prevPulseTime, pSensors,
                   strayWrites, attached, clock, call, local, result, npulses, seen,
                   pulsesFired, accumulated, fresh>>

Reset_count ==
    /\ pc = "rs_count"
    /\ _count' = [_count EXCEPT ![call.self] = Zero32]
    /\ npulses' = [npulses EXCEPT ![call.self] = Zero32]
    /\ pc' = "rs_last"
    /\ UNCHANGED <<_state, _lastPulseTime, _prevPulseTime, pSensors, strayWrites,
                   attached, interruptsOn, clock, call, local, result, seen,
                   pulsesFired, accumulated, fresh>>

Reset_lastPulseTime ==
    /\ pc = "rs_last"
    /\ _lastPulseTime' = [_lastPulseTime EXCEPT ![call.self] = Zero32]
    /\ pc' = "rs_prev"
    /\ UNCHANGED <<_state, _count, _prevPulseTime, pSensors, strayWrites, attached,
                   interruptsOn, clock, call, local, result, npulses, seen,
                   pulsesFired, accumulated, fresh>>

Reset_prevPulseTime ==
    /\ pc = "rs_prev"
    /\ _prevPulseTime' = [_prevPulseTime EXCEPT ![call.self] = Zero32]
    /\ pc' = "rs_int"
    /\ UNCHANGED <<_state, _count, _lastPulseTime, pSensors, strayWrites, attached,
                   interruptsOn, clock, call, local, result, npulses, seen,
                   pulsesFired, accumulated, fresh>>

Reset_interrupts ==
    /\ pc = "rs_int"
    /\ interruptsOn' = interrupts
    /\ pc' = IF call.op = "Enable" THEN "en_psensors" ELSE "idle"
    /\ UNCHANGED <<_state, _count, _lastPulseTime, _prevPulseTime, pSensors,
                   strayWrites, attached, clock, call, local, result, npulses, seen,
                   pulsesFired, accumulated, fresh>>

(***************************************************************************)
(* Enable(bool enabled); Disable() is Enable(false).                       *)
(***************************************************************************)
(* Mutation: Enable(true) that does not call Reset(). *)
EnableBranch_noReset(s, enabled) ==
    IF enabled /\ ~_state[s].Enabled THEN "en_psensors"
    ELSE IF ~enabled THEN "en_detach"
    ELSE "en_set"

(* Mutation: Enable(false) that neither detaches nor clears the table. *)
EnableBranch_noDetach(s, enabled) ==
    IF enabled /\ ~_state[s].Enabled THEN "rs_noint" ELSE "en_set"

(* Where Enable() goes after its validity check. *)
EnableBranch(s, enabled) ==
    IF enabled /\ ~_state[s].Enabled THEN "rs_noint"
    ELSE IF ~enabled THEN "en_detach"
    ELSE "en_set"

CallEnable(s, enabled) ==
    /\ pc = "idle"
    /\ call' = [op |-> "Enable", self |-> s, enabled |-> enabled,
                flagAtCall |-> interruptsOn]
    /\ result' = NoResult
    /\ pc' = IF ~HasInterrupt(s) THEN "idle" ELSE EnableBranch(s, enabled)
    /\ fresh' = IF HasInterrupt(s) /\ enabled /\ ~_state[s].Enabled
                THEN [fresh EXCEPT ![s] = TRUE]
                ELSE fresh
    /\ UNCHANGED <<_state, _count, _lastPulseTime, _prevPulseTime, pSensors,
                   strayWrites, attached, interruptsOn, clock, local, npulses, seen,
                   pulsesFired, accumulated>>

(* pSensors[irq] = p; an index outside the array is recorded, not stored. *)
StoreSensor(irq, p) ==
    IF irq \in Lines
    THEN /\ pSensors' = [pSensors EXCEPT ![irq] = p]
         /\ UNCHANGED strayWrites
    ELSE /\ strayWrites' = strayWrites \cup {irq}
         /\ UNCHANGED pSensors

Enable_pSensors ==
    /\ pc = "en_psensors"
    /\ StoreSensor(_state[call.self].IRQ, call.self)
    /\ pc' = "en_attach"
    /\ UNCHANGED <<_state, _count, _lastPulseTime, _prevPulseTime, attached,
                   interruptsOn, clock, call, local, result, npulses, seen,
                   pulsesFired, accumulated, fresh>>

Enable_attachInterrupt ==
    /\ pc = "en_attach"
    /\ LET irq == _state[call.self].IRQ
       IN  attached' = IF irq = 0 THEN [attached EXCEPT ![0] = "RotationSensor_ISR_0"]
                       ELSE IF irq = 1 THEN [attached EXCEPT ![1] = "RotationSensor_ISR_1"]
                       ELSE attached
    /\ pc' = "en_set"
    /\ UNCHANGED <<_state, _count, _lastPulseTime, _prevPulseTime, pSensors,
                   strayWrites, interruptsOn, clock, call, local, result, npulses,
                   seen, pulsesFired, accumulated, fresh>>

(* Mutation: Enable(false) that clears the table entry but never detaches. *)
Enable_detachInterrupt_skipped ==
    /\ pc = "en_detach"
    /\ pc' = "en_clear"
    /\ UNCHANGED <<_state, _count, _lastPulseTime, _prevPulseTime, pSensors,
                   strayWrites, attached, interruptsOn, clock, call, local, result,
                   npulses, seen, pulsesFired, accumulated, fresh>>

Enable_detachInterrupt ==
    /\ pc = "en_detach"
    /\ LET irq == _state[call.self].IRQ
       IN  attached' = IF irq \in Lines THEN [attached EXCEPT ![irq] = NoHandler]
                       ELSE attached
    /\ pc' = "en_clear"
    /\ UNCHANGED <<_state, _count, _lastPulseTime, _prevPulseTime, pSensors,
                   strayWrites, interruptsOn, clock, call, local, result, npulses,
                   seen, pulsesFired, accumulated, fresh>>

Enable_clear ==
    /\ pc = "en_clear"
    /\ StoreSensor(_state[call.self].IRQ, NULL)
    /\ pc' = "en_set"
    /\ UNCHANGED <<_state, _count, _lastPulseTime, _prevPulseTime, attached,
                   interruptsOn, clock, call, local, result, npulses, seen,
                   pulsesFired, accumulated, fresh>>

Enable_set ==
    /\ pc = "en_set"
    /\ _state' = [_state EXCEPT ![call.self].Enabled = call.enabled]
    /\ accumulated' = IF call.enabled THEN accumulated
                      ELSE [accumulated EXCEPT ![call.self] =
                               npulses[call.self] \notin {U32(0), U32(1)}]
    /\ pc' = "idle"
    /\ UNCHANGED <<_count, _lastPulseTime, _prevPulseTime, pSensors, strayWrites,
                   attached, interruptsOn, clock, call, local, result, npulses, seen,
                   pulsesFired, fresh>>


(***************************************************************************)
(* Read(), ReadRPM(), ReadRevs(): the last two return NO_READING when the  *)
(* sensor is not enabled and otherwise compute from Read()'s snapshot.     *)
(***************************************************************************)
CallRead(s) ==
    /\ pc = "idle"
    /\ call' = [op |-> "Read", self |-> s, enabled |-> FALSE,
                flagAtCall |-> interruptsOn]
    /\ IF Enabled(s)
       THEN /\ pc' = "rd_noint"
            /\ result' = NoResult
            /\ seen' = {Meas(s)}
            /\ UNCHANGED local
       ELSE Return(DataResult(ReadData(s, Zero32, Zero32, Zero32)))
    /\ UNCHANGED <<_state, _count, _lastPulseTime, _prevPulseTime, pSensors,
                   strayWrites, attached, interruptsOn, clock, npulses,
                   pulsesFired, accumulated, fresh>>

CallReadRPM(s) ==
    /\ pc = "idle"
    /\ call' = [op |-> "ReadRPM", self |-> s, enabled |-> FALSE,
                flagAtCall |-> interruptsOn]
    /\ IF ~Enabled(s)
       THEN Return(FloatResult("rpm", CountData_struct, Float(NO_READING)))
       ELSE /\ pc' = "rd_noint"
            /\ result' = NoResult
            /\ seen' = {Meas(s)}
            /\ UNCHANGED local
    /\ UNCHANGED <<_state, _count, _lastPulseTime, _prevPulseTime, pSensors,
                   strayWrites, attached, interruptsOn, clock, npulses,
                   pulsesFired, accumulated, fresh>>

CallReadRevs(s) ==
    /\ pc = "idle"
    /\ call' = [op |-> "ReadRevs", self |-> s, enabled |-> FALSE,
                flagAtCall |-> interruptsOn]
    /\ IF ~Enabled(s)
       THEN Return(FloatResult("revs", CountData_struct, Float(NO_READING)))
       ELSE /\ pc' = "rd_noint"
            /\ result' = NoResult
            /\ seen' = {Meas(s)}
            /\ UNCHANGED local
    /\ UNCHANGED <<_state, _count, _lastPulseTime, _prevPulseTime, pSensors,
                   strayWrites, attached, interruptsOn, clock, npulses,
                   pulsesFired, accumulated, fresh>>

Read_noInterrupts ==
    /\ pc = "rd_noint"
    /\ interruptsOn' = noInterrupts
    /\ pc' = "rd_count"
    /\ UNCHANGED <<_state, _count, _lastPulseTime, _prevPulseTime, pSensors,
                   strayWrites, attached, clock, call, local, result, npulses, seen,
                   pulsesFired, accumulated, fresh>>

Read_count ==
    /\ pc = "rd_count"
    /\ local' = [local EXCEPT !.count = _count[call.self]]
    /\ pc' = "rd_end"
    /\ UNCHANGED <<_state, _count, _lastPulseTime, _prevPulseTime, pSensors,
                   strayWrites, attached, interruptsOn, clock, call, result, npulses,
                   seen, pulsesFired, accumulated, fresh>>

Read_endTime ==
    /\ pc = "rd_end"
    /\ local' = [local EXCEPT !.endTime = _lastPulseTime[call.self]]
    /\ pc' = "rd_prev"
    /\ UNCHANGED <<_state, _count, _lastPulseTime, _prevPulseTime, pSensors,
                   strayWrites, attached, interruptsOn, clock, call, result, npulses,
                   seen, pulsesFired, accumulated, fresh>>

Read_prevTime ==
    /\ pc = "rd_prev"
    /\ local' = [local EXCEPT !.prevTime = _prevPulseTime[call.self]]
    /\ pc' = "rd_int"
    /\ UNCHANGED <<_state, _count, _lastPulseTime, _prevPulseTime, pSensors,
                   strayWrites, attached, interruptsOn, clock, call, result, npulses,
                   seen, pulsesFired, accumulated, fresh>>

Read_interrupts ==
    /\ pc = "rd_int"
    /\ interruptsOn' = interrupts
    /\ pc' = "rd_data"
    /\ UNCHANGED <<_state, _count, _lastPulseTime, _prevPulseTime, pSensors,
                   strayWrites, attached, clock, call, local, result, npulses, seen,
                   pulsesFired, accumulated, fresh>>

(* The snapshot is filled in and returned, or handed to RPM() / Revs(). *)
Read_return ==
    /\ pc = "rd_data"
    /\ LET data == ReadData(call.self, local.count, local.endTime, local.prevTime)
       IN  IF call.op = "ReadRPM"
           THEN \E v \in RPM(data) : Return(FloatResult("rpm", data, Float(v)))
           ELSE IF call.op = "ReadRevs"
           THEN Return(FloatResult("revs", data, Revs(data)))
           ELSE Return(DataResult(data))
    /\ UNCHANGED <<_state, _count, _lastPulseTime, _prevPulseTime, pSensors,
                   strayWrites, attached, interruptsOn, clock, call, npulses,
                   pulsesFired, accumulated, fresh>>

(***************************************************************************)
(* ReadCount()                                                             *)
(***************************************************************************)
CallReadCount(s) ==
    /\ pc = "idle"
    /\ call' = [op |-> "ReadCount", self |-> s, enabled |-> FALSE,
                flagAtCall |-> interruptsOn]
    /\ IF Enabled(s)
       THEN /\ pc' = "rc_noint"
            /\ result' = NoResult
            /\ UNCHANGED <<local, seen>>
       ELSE Return(CountResult(Zero32))
    /\ UNCHANGED <<_state, _count, _lastPulseTime, _prevPulseTime, pSensors,
                   strayWrites, attached, interruptsOn, clock, npulses,
                   pulsesFired, accumulated, fresh>>

ReadCount_noInterrupts ==
    /\ pc = "rc_noint"
    /\ interruptsOn' = noInterrupts
    /\ pc' = "rc_count"
    /\ UNCHANGED <<_state, _count, _lastPulseTime, _prevPulseTime, pSensors,
                   strayWrites, attached, clock, call, local, result, npulses, seen,
                   pulsesFired, accumulated, fresh>>

ReadCount_count ==
    /\ pc = "rc_count"
    /\ local' = [local EXCEPT !.count = _count[call.self]]
    /\ pc' = "rc_int"
    /\ UNCHANGED <<_state, _count, _lastPulseTime, _prevPulseTime, pSensors,
                   strayWrites, attached, interruptsOn, clock, call, result, npulses,
                   seen, pulsesFired, accumulated, fresh>>

ReadCount_interrupts ==
    /\ pc = "rc_int"
    /\ interruptsOn' = interrupts
    /\ Return(CountResult(local.count))
    /\ UNCHANGED <<_state, _count, _lastPulseTime, _prevPulseTime, pSensors,
                   strayWrites, attached, clock, call, npulses, pulsesFired,
                   accumulated, fresh>>

(***************************************************************************)
(* The mainline's own use of the global interrupt flag between calls.      *)
(***************************************************************************)
Caller_noInterrupts ==
    /\ pc = "idle"
    /\ interruptsOn
    /\ interruptsOn' = noInterrupts
    /\ UNCHANGED <<_state, _count, _lastPulseTime, _prevPulseTime, pSensors,
                   strayWrites, attached, clock, pc, call, local, result, npulses,
                   seen, pulsesFired, accumulated, fresh>>

Caller_interrupts ==
    /\ pc = "idle"
    /\ ~interruptsOn
    /\ interruptsOn' = interrupts
    /\ UNCHANGED <<_state, _count, _lastPulseTime, _prevPulseTime, pSensors,
                   strayWrites, attached, clock, pc, call, local, result, npulses,
                   seen, pulsesFired, accumulated, fresh>>

(***************************************************************************)
(* The specification.                                                      *)
(***************************************************************************)
Next ==
    \/ RotationSensor_ISR_0
    \/ RotationSensor_ISR_1
    \/ \E s \in Sensors : CallReset(s)
    \/ Reset_noInterrupts
    \/ Reset_count
    \/ Reset_lastPulseTime
    \/ Reset_prevPulseTime
    \/ Reset_interrupts
    \/ \E s \in Sensors, enabled \in BOOLEAN : CallEnable(s, enabled)
    \/ Enable_pSensors
    \/ Enable_attachInterrupt
    \/ Enable_detachInterrupt
    \/ Enable_clear
    \/ Enable_set
    \/ \E s \in Sensors : CallRead(s)
    \/ \E s \in Sensors : CallReadRPM(s)
    \/ \E s \in Sensors : CallReadRevs(s)
    \/ Read_noInterrupts
    \/ Read_count
    \/ Read_endTime
    \/ Read_prevTime
    \/ Read_interrupts
    \/ Read_return
    \/ \E s \in Sensors : CallReadCount(s)
    \/ ReadCount_noInterrupts
    \/ ReadCount_count
    \/ ReadCount_interrupts
    \/ Caller_noInterrupts
    \/ Caller_interrupts

Spec == Init /\ [][Next]_vars

(***************************************************************************)
(* A sensor that has been counting for a long time: object A, enabled on   *)
(* pin 2, has handled 2^32 - 2 pulses since it was enabled, the last two   *)
(* of them 25000 microseconds apart.  SpecLongRun starts from the          *)
(* constructed states and from this one.                                   *)
(***************************************************************************)
LongRunPulses == <<65535, 65534>>

InitLongRun ==
    /\ _state = [ s \in Sensors |->
                    IF s = "A" THEN [RotationSensor(2, 20) EXCEPT !.Enabled = TRUE]
                               ELSE RotationSensor(3, -1) ]
    /\ _count = [ s \in Sensors |-> IF s = "A" THEN LongRunPulses ELSE Zero32 ]
    /\ _lastPulseTime = [ s \in Sensors |-> IF s = "A" THEN ClockAtStart ELSE Zero32 ]
    /\ _prevPulseTime = [ s \in Sensors |->
                            IF s = "A" THEN Sub32(ClockAtStart, U32(25000)) ELSE Zero32 ]
    /\ pSensors = [ i \in Lines |-> IF i = 0 THEN "A" ELSE NULL ]
    /\ strayWrites = {}
    /\ attached = [ i \in Lines |-> IF i = 0 THEN "RotationSensor_ISR_0" ELSE NoHandler ]
    /\ interruptsOn = TRUE
    /\ clock = ClockAtStart
    /\ pc = "idle"
    /\ call = [ op |-> "Enable", self |-> "A", enabled |-> TRUE, flagAtCall |-> TRUE ]
    /\ local = NoLocal
    /\ result = NoResult
    /\ npulses = [ s \in Sensors |-> IF s = "A" THEN LongRunPulses ELSE Zero32 ]
    /\ seen = {}
    /\ pulsesFired = 0
    /\ accumulated = [ s \in Sensors |-> FALSE ]
    /\ fresh = [ s \in Sensors |-> FALSE ]

SpecLongRun == (Init \/ InitLongRun) /\ [][Next]_vars


(***************************************************************************)
(* Properties.                                                             *)
(***************************************************************************)
(* The snapshot Read() has taken, once its critical section is over. *)
Snapshot == ReadData(call.self, local.count, local.endTime, local.prevTime)

(* The value of a limb pair below 2^31, and the order of two limb pairs. *)
Val(a) == a[1] * W16 + a[2]

Less32(a, b) == a[1] < b[1] \/ (a[1] = b[1] /\ a[2] < b[2])

MinusOne == [ neg |-> TRUE, num |-> <<0, 1>>, den |-> 1 ]

(* C1: when Read() leaves its critical section, the three values it has    *)
(* copied (count, endTime, prevTime) are together one of the measurement   *)
(* states the object was in during the call: the state before a pulse or   *)
(* the state after it, never fields of both.                               *)
C1_AtomicSnapshot ==
    pc = "rd_data" =>
        <<local.count, local.endTime, local.prevTime>> \in seen

(* C1 witness: a pulse was handled for the object while Read() was running. *)
C1_Witness ==
    /\ pc = "rd_data"
    /\ call.op = "Read"
    /\ Cardinality(seen) >= 2

(* C2: every step in which Count_ISR() advances an object's counters is    *)
(* taken while that object's enabled flag is true and the interrupt of its *)
(* line is attached.                                                       *)
C2_IsrOnlyWhileEnabled ==
    [][ \A s \in Sensors :
           npulses'[s] = IncNat(npulses[s]) =>
               /\ _state[s].Enabled
               /\ _state[s].IRQ \in Lines
               /\ attached[_state[s].IRQ] # NoHandler ]_vars

(* C3: an object constructed on a pin for which digitalPinToInterrupt      *)
(* gives NOT_AN_INTERRUPT is never enabled and never entered in the        *)
(* dispatch table, and an Enable(true) of it returns at once: it takes no  *)
(* step that resets, stores or attaches.                                   *)
C3_InvalidChannelRejected ==
    \A s \in Sensors :
        digitalPinToInterrupt(_state[s].Pin) = NOT_AN_INTERRUPT =>
            /\ ~Enabled(s)
            /\ \A i \in Lines : pSensors[i] # s
            /\ (call.op = "Enable" /\ call.self = s /\ call.enabled) => pc = "idle"

(* C4: the resolution of every object is at least 1, whatever integer was  *)
(* passed to the constructor.                                              *)
C4_ResolutionAtLeastOne ==
    \A s \in Sensors : Resolution(s) >= 1

(* C5 (as amended): a snapshot of Read() has a non-zero LastInterval only  *)
(* if the object has handled at least two pulses since its last reset.     *)
C5_IntervalNeedsTwoPulses ==
    pc = "rd_data" =>
        (Snapshot.LastInterval # Zero32 =>
            npulses[call.self] \notin {U32(0), U32(1)})

(* C5 witness: Read() reports a non-zero interval right after the second   *)
(* pulse since the reset.                                                  *)
C5_Witness ==
    /\ pc = "rd_data"
    /\ call.op = "Read"
    /\ npulses[call.self] = U32(2)
    /\ Snapshot.LastInterval # Zero32

(* C5 (as stated): no snapshot of Read() has LastInterval # 0 while its    *)
(* Count is below 2.                                                       *)
C5_NoIntervalBelowTwoCounts ==
    pc = "rd_data" =>
        ~(Snapshot.LastInterval # Zero32 /\ Snapshot.Count \in {U32(0), U32(1)})

(* C6: after a reset and exactly two pulses at t1 < t2, Read() reports     *)
(* LastInterval = t2 - t1 and RPM() is 60000000 / ((t2 - t1) * resolution). *)
C6_TwoPulseRate ==
    ( /\ pc = "rd_data"
      /\ npulses[call.self] = U32(2)
      /\ local.count = U32(2)
      /\ Less32(_prevPulseTime[call.self], _lastPulseTime[call.self]) )
    => LET t1 == _prevPulseTime[call.self]
           t2 == _lastPulseTime[call.self]
           d  == Val(Sub32(t2, t1)) * Resolution(call.self)
       IN  /\ Snapshot.LastInterval = Sub32(t2, t1)
           /\ d > 0 => \A v \in RPM(Snapshot) : v = 60000000 \div d

ReadOps == {"Read", "ReadCount", "ReadRPM", "ReadRevs"}

Returned(r) ==
    CASE r.kind = "data"  -> r.data
      [] r.kind = "count" -> r.u
      [] OTHER            -> r.f

NotEnabledReturn(op, s) ==
    CASE op = "Read"      -> ReadData(s, Zero32, Zero32, Zero32)
      [] op = "ReadCount" -> Zero32
      [] OTHER            -> Float(NO_READING)

(* C7: what a read operation (Read, ReadCount, ReadRPM, ReadRevs) returns  *)
(* for an enabled sensor always differs from what the same operation       *)
(* returns for a sensor that is not enabled.                               *)
C7_SentinelDistinguishable ==
    (pc = "idle" /\ call.op \in ReadOps /\ Enabled(call.self)) =>
        Returned(result) # NotEnabledReturn(call.op, call.self)

(* C8: ReadRPM() and ReadRevs() of an object whose enabled flag is false   *)
(* return -1, also when counts and timestamps are left from before.        *)
C8_DisabledNoReading ==
    (pc = "idle" /\ call.op \in {"ReadRPM", "ReadRevs"} /\ ~_state[call.self].Enabled)
        => result.f = MinusOne

(* C8 witness: ReadRPM() returned -1 for an object that was disabled with  *)
(* two or more pulses counted and still holds them.                        *)
C8_Witness ==
    /\ pc = "idle"
    /\ call.op = "ReadRPM"
    /\ ~_state[call.self].Enabled
    /\ accumulated[call.self]
    /\ _prevPulseTime[call.self] # Zero32
    /\ result.f = MinusOne

(* C9: no step of an Enable(true) on an enabled object, or of an           *)
(* Enable(false) on a disabled one, changes the flags, the counters and    *)
(* timestamps, the attached handlers or the dispatch table.                *)
C9_RedundantEnableNoOp ==
    [][ ( /\ call.op = "Enable"
          /\ pc # "idle"
          /\ pc' # pc
          /\ call.enabled = _state[call.self].Enabled )
        => /\ _state' = _state
           /\ _count' = _count
           /\ _lastPulseTime' = _lastPulseTime
           /\ _prevPulseTime' = _prevPulseTime
           /\ attached' = attached
           /\ pSensors' = pSensors ]_vars

(* C10: a Read() of an enabled object that has handled no pulse since its  *)
(* last disabled-to-enabled Enable(true) began returns Count = 0 and       *)
(* LastInterval = 0.                                                       *)
C10_EnableRestartsFromZero ==
    (pc = "idle" /\ call.op = "Read" /\ Enabled(call.self) /\ fresh[call.self])
        => /\ result.data.Count = Zero32
           /\ result.data.LastInterval = Zero32

(* C10 witness: Enable, two or more pulses, Disable, Enable, Read: the     *)
(* snapshot counts zero.                                                   *)
C10_Witness ==
    /\ pc = "idle"
    /\ call.op = "Read"
    /\ Enabled(call.self)
    /\ fresh[call.self]
    /\ accumulated[call.self]
    /\ result.kind = "data"
    /\ result.data.Count = Zero32

(* C11: when Reset(), Read() or ReadCount() returns, the global interrupt   *)
(* flag has the value it had when the method was called, also when it was  *)
(* called with interrupts suppressed.                                      *)
C11_InterruptFlagRestored ==
    [][ ( /\ call.op \in {"Reset", "Read", "ReadCount"}
          /\ pc # "idle"
          /\ pc' = "idle" )
        => interruptsOn' = call.flagAtCall ]_vars

(* C12: in every snapshot Read() returns, CountsPerRev (the divisor of     *)
(* Revs()) is not zero, and LastInterval * CountsPerRev (the divisor of    *)
(* RPM()) is not zero when LastInterval is not zero.                       *)
C12_NoDivisionByZero ==
    (pc = "idle" /\ call.op = "Read" /\ result.kind = "data") =>
        /\ result.data.CountsPerRev # 0
        /\ result.data.LastInterval # Zero32 =>
               Mul32(result.data.LastInterval, result.data.CountsPerRev) # Zero32

(* C13: no step Enable(false) takes changes the counters and timestamps of *)
(* its object, and while an object's enabled flag is false and the         *)
(* mainline is not inside a Reset() or Enable() of that object, no step    *)
(* (no pulse in particular) changes them either.                           *)
C13_DisabledStateFrozen ==
    [][ \A s \in Sensors :
           ( \/ call.op = "Enable" /\ call.self = s /\ ~call.enabled /\ pc' # pc
             \/ /\ ~_state[s].Enabled
                /\ ~(call.self = s /\ call.op \in {"Reset", "Enable"} /\ pc # "idle") )
           => /\ _count'[s] = _count[s]
              /\ _lastPulseTime'[s] = _lastPulseTime[s]
              /\ _prevPulseTime'[s] = _prevPulseTime[s] ]_vars

(* C13 witness: object s was disabled holding two pulses; afterwards the   *)
(* other object was enabled on the same line and handled the next pulse,   *)
(* and s still holds its two.                                              *)
C13_Witness ==
    \E s \in Sensors : \E t \in Sensors \ {s} :
        /\ pc = "idle"
        /\ ~_state[s].Enabled
        /\ accumulated[s]
        /\ _count[s] = U32(2)
        /\ _state[t].IRQ = _state[s].IRQ
        /\ pSensors[_state[s].IRQ] = t
        /\ npulses[t] = U32(1)
        /\ _lastPulseTime[t] = clock

(* C14: a Read(), ReadRPM() or ReadRevs() of an enabled object that has    *)
(* handled no pulse since its last Reset() takes a snapshot with Count = 0 *)
(* and LastInterval = 0, for which RPM() is 0 and Revs() is 0.             *)
C14_ResetThenReadIsZero ==
    (pc = "rd_data" /\ npulses[call.self] = Zero32) =>
        /\ Snapshot.Count = Zero32
        /\ Snapshot.LastInterval = Zero32
        /\ RPM(Snapshot) = {0}
        /\ Revs(Snapshot).num = Zero32
        /\ Revs(Snapshot).den # 0

(* C15: whenever a handler is attached to an interrupt line, the dispatch   *)
(* table entry of that line is not NULL.                                   *)
C15_BoundLineHasSensor ==
    \A i \in Lines : attached[i] # NoHandler => pSensors[i] # NULL

(* C15 witness: two objects share line 0; the first was enabled, the       *)
(* second was enabled over it and disabled, and the first has been enabled *)
(* anew: the line is attached and dispatches to the first object.          *)
C15_Witness ==
    \E s \in Sensors : \E t \in Sensors \ {s} :
        /\ pc = "idle"
        /\ _state[s].IRQ = 0
        /\ _state[t].IRQ = 0
        /\ accumulated[t]
        /\ ~_state[t].Enabled
        /\ _state[s].Enabled
        /\ fresh[s]
        /\ attached[0] = "RotationSensor_ISR_0"
        /\ pSensors[0] = s

(* A step in which Count_ISR() handles a pulse for object s at the time    *)
(* the clock then shows: the last timestamp becomes the previous one, the  *)
(* clock value the last one, and the count grows by one (mod 2^32).        *)
PulseEffect(s) ==
    npulses'[s] = IncNat(npulses[s]) =>
        /\ _prevPulseTime'[s] = _lastPulseTime[s]
        /\ _lastPulseTime'[s] = clock'
        /\ _count'[s] = Add32(_count[s], U32(1))

(* What ReadCount() of an enabled object is about to return is the number  *)
(* of pulses handled since the last reset, modulo 2^32.                    *)
ReadCountIsPulses ==
    pc = "rc_int" =>
        local.count = <<npulses[call.self][1] % W16, npulses[call.self][2]>>

(* ReadRevs() of an enabled object has returned. *)
RevsReturned ==
    pc = "idle" /\ call.op = "ReadRevs" /\ result.kind = "revs" /\ Enabled(call.self)

C17_IntervalAcrossClockWrap ==
    (pc = "rd_data" /\ Less32(local.endTime, local.prevTime)) =>
        /\ Add32(local.prevTime, Snapshot.LastInterval) = local.endTime
        /\ Snapshot.LastInterval # Zero32
        /\ Less32(Snapshot.LastInterval, U32(MaxPulses * 25000 + 1))

(* C17 witness: pulses at 2^32 - 24000 and, after the wrap, at 1000: the   *)
(* snapshot reports 25000 microseconds.                                    *)
C17_Witness ==
    /\ pc = "rd_data"
    /\ local.prevTime = <<65535, 41536>>
    /\ local.endTime = U32(1000)
    /\ Snapshot.LastInterval = U32(25000)

(* C18: as long as no method has been called since construction, the       *)
(* count and both timestamps of every object are zero.                     *)
C18_ZeroAfterConstruction ==
    call.op = "none" =>
        \A s \in Sensors :
            /\ _count[s] = Zero32
            /\ _lastPulseTime[s] = Zero32
            /\ _prevPulseTime[s] = Zero32

(* C19: between calls, every object whose Enabled() is true owns the table *)
(* entry of its interrupt line, and that line has its handler attached.    *)
C19_EnabledIsRegistered ==
    pc = "idle" =>
        \A s \in Sensors :
            Enabled(s) =>
                /\ _state[s].IRQ \in Lines
                /\ pSensors[_state[s].IRQ] = s
                /\ attached[_state[s].IRQ] # NoHandler

(* C20: Enable() never stores through pSensors[irq] with irq outside the   *)
(* two-entry table.                                                        *)
C20_TableIndexInBounds ==
    strayWrites = {}

====
